---------------------------- MODULE Spec2Model ----------------------------
(***************************************************************************)
(* A model of watcher/watcher.py: the log tailer (tail_log), the record    *)
(* parser (parse_log_line), the monitor loop (monitor) with its sliding    *)
(* window, tracked pool and the two cooldown-gated alerts                  *)
(* (send_failover_alert, send_error_rate_alert, post_slack).               *)
(*                                                                         *)
(* Text is a sequence of one-character strings.  An optional value         *)
(* (Python's None) is a sequence of length 0 or 1.  Time is in seconds.    *)
(***************************************************************************)
EXTENDS Integers, Sequences, FiniteSets, TLC

(***************************************************************************)
(* Bounds of the model.                                                    *)
(***************************************************************************)
\* Spec: the largest clock reading, the number of records appended to the
\* window in one run, and how often the 5xx flag of consecutive records
\* changes in one run
MaxTime == 2
MaxRequests == 4
MaxSwitches == 1
\* the same three bounds for SpecWindow
MaxTimeWindow == 2
MaxRequestsWindow == 12
MaxSwitchesWindow == 1
\* the same three bounds for SpecRate
MaxTimeRate == 0
MaxRequestsRate == 41
MaxSwitchesRate == 1
\* the same three bounds for SpecNotify, SpecDispatch, SpecFaults (with the
\* number of exceptions raised in one run) and SpecSmall
MaxTimeNotify == 2
MaxRequestsNotify == 11
MaxSwitchesNotify == 0
MaxTimeDispatch == 1
MaxRequestsDispatch == 10
MaxSwitchesDispatch == 0
MaxTimeFaults == 1
MaxRequestsFaults == 11
MaxSwitchesFaults == 0
MaxFaults == 2
MaxTimeSmall == 0
MaxRequestsSmall == 12
MaxSwitchesSmall == 1
\* SpecTail, SpecAppend and SpecPoll: the most bytes the file holds, how
\* often it is truncated or replaced and how many polls fail in one run
MaxFile == 6
MaxTruncations == 2
MaxFileAppend == 5
MaxFilePoll == 6
MaxErrors == 2

None == <<>>
Some(x) == <<x>>

Max(a, b) == IF a >= b THEN a ELSE b
Min(a, b) == IF a <= b THEN a ELSE b

(***************************************************************************)
(* str.strip(): whitespace removed at both ends.                           *)
(***************************************************************************)
Whitespace == {" ", "\t", "\n"}

RECURSIVE lstrip(_)
lstrip(s) == IF s # <<>> /\ Head(s) \in Whitespace THEN lstrip(Tail(s)) ELSE s

RECURSIVE rstrip(_)
rstrip(s) ==
    IF s # <<>> /\ s[Len(s)] \in Whitespace
    THEN rstrip(SubSeq(s, 1, Len(s) - 1))
    ELSE s

strip(s) == rstrip(lstrip(s))

(***************************************************************************)
(* The values json.loads gives the fields of an object, and a log line.    *)
(* json.loads itself is not modelled: a line carries what it decodes to    *)
(* ("invalid": json.loads raises JSONDecodeError; "other": valid JSON that *)
(* is no object, such as a list or a number).                              *)
(***************************************************************************)
Absent == [tag |-> "absent", num |-> 0, text |-> <<>>]
JNull == [tag |-> "null", num |-> 0, text |-> <<>>]
JInt(n) == [tag |-> "int", num |-> n, text |-> <<>>]
JBool(b) == [tag |-> "bool", num |-> IF b THEN 1 ELSE 0, text |-> <<>>]
JStr(s) == [tag |-> "str", num |-> 0, text |-> s]

BlankLine == [blank |-> TRUE, json |-> "invalid", status |-> Absent, pool |-> Absent]
Garbage == [blank |-> FALSE, json |-> "invalid", status |-> Absent, pool |-> Absent]
NonObject == [blank |-> FALSE, json |-> "other", status |-> Absent, pool |-> Absent]
Obj(status, pool) == [blank |-> FALSE, json |-> "object", status |-> status, pool |-> pool]

blue == <<"b", "l", "u", "e">>
green == <<"g", "r", "e", "e", "n">>

\* dict.get(key, default)
dict_get(field, default) == IF field.tag = "absent" THEN default ELSE field

(***************************************************************************)
(* int(x): an int or a bool converts; a string converts when, stripped, it *)
(* is an optional sign and decimal digits (ValueError otherwise); None     *)
(* raises TypeError.                                                       *)
(***************************************************************************)
Digits == <<"0", "1", "2", "3", "4", "5", "6", "7", "8", "9">>
IsDigit(c) == \E d \in 1..10 : Digits[d] = c
DigitVal(c) == (CHOOSE d \in 1..10 : Digits[d] = c) - 1

RECURSIVE DigitsValue(_, _)
DigitsValue(s, acc) ==
    IF s = <<>> THEN acc ELSE DigitsValue(Tail(s), 10 * acc + DigitVal(Head(s)))

int_of_text(s) ==
    LET t == strip(s)
        signed == t # <<>> /\ Head(t) \in {"+", "-"}
        body == IF signed THEN Tail(t) ELSE t
        ok == body # <<>> /\ \A i \in 1..Len(body) : IsDigit(body[i])
        mag == IF ok THEN DigitsValue(body, 0) ELSE 0
    IN  [ok |-> ok, val |-> IF signed /\ Head(t) = "-" THEN 0 - mag ELSE mag]

int_of(v) ==
    CASE v.tag = "int" -> [ok |-> TRUE, val |-> v.num]
      [] v.tag = "bool" -> [ok |-> TRUE, val |-> v.num]
      [] v.tag = "str" -> int_of_text(v.text)
      [] OTHER -> [ok |-> FALSE, val |-> 0]

(***************************************************************************)
(* parse_log_line: (status, pool), or (None, None) for a line it drops.    *)
(***************************************************************************)
Dropped == [status |-> None, pool |-> None]

\* status = int(data.get('status', 0))
status_of(line) == int_of(dict_get(line.status, JInt(0)))

\* a faulty variant: the dash is kept as a label
normalize_pool_keeps_dash(pool) == IF pool = <<>> THEN None ELSE Some(pool)

\* if not pool or pool == '-': pool = None
normalize_pool(pool) == IF pool = <<>> \/ pool = <<"-">> THEN None ELSE Some(pool)

\* a faulty variant: a line that does not decode counts as a record of status 0
on_decode_error_as_zero(line) == [status |-> Some(0), pool |-> None]

\* the except clauses: json.JSONDecodeError, then any other Exception
on_decode_error(line) == Dropped
on_other_error(line) == Dropped

parse_log_line(line) ==
    IF line.blank THEN Dropped
    ELSE IF line.json = "invalid" THEN on_decode_error(line)
    ELSE IF line.json # "object" THEN on_other_error(line)
    ELSE IF ~status_of(line).ok THEN on_other_error(line)
    ELSE IF dict_get(line.pool, JStr(<<>>)).tag # "str" THEN on_other_error(line)
    ELSE [status |-> Some(status_of(line).val),
          pool |-> normalize_pool(strip(dict_get(line.pool, JStr(<<>>)).text))]


(***************************************************************************)
(* IEEE 754 binary64 arithmetic, as far as line 221 needs it:              *)
(*     rate = (error_count / len(recent)) * 100.0                          *)
(* is a correctly rounded division of two ints followed by a correctly     *)
(* rounded multiplication, both round-half-to-even on a 53-bit             *)
(* significand.  A magnitude is a sequence of limbs in base 2^18, least    *)
(* significant first (<<>> is 0); a float is m * 2^e with m of 53 bits.    *)
(***************************************************************************)
Base == 262144
Significand == 53

RECURSIVE Pow2(_)
Pow2(k) == IF k = 0 THEN 1 ELSE 2 * Pow2(k - 1)

RECURSIVE BigTrim(_)
BigTrim(x) ==
    IF x # <<>> /\ x[Len(x)] = 0 THEN BigTrim(SubSeq(x, 1, Len(x) - 1)) ELSE x

\* x * c + carry, for 0 <= c <= 4096
RECURSIVE BigMulCarry(_, _, _)
BigMulCarry(x, c, carry) ==
    IF x = <<>>
    THEN IF carry = 0 THEN <<>> ELSE <<carry>>
    ELSE <<(Head(x) * c + carry) % Base>>
         \o BigMulCarry(Tail(x), c, (Head(x) * c + carry) \div Base)

BigMul(x, c) == BigTrim(BigMulCarry(x, c, 0))

\* x * 2^j
RECURSIVE BigShl(_, _)
BigShl(x, j) ==
    IF x = <<>> \/ j = 0 THEN x
    ELSE IF j >= 18 THEN <<0>> \o BigShl(x, j - 18)
    ELSE IF j > 12 THEN BigShl(BigMul(x, 4096), j - 12)
    ELSE BigMul(x, Pow2(j))

\* quotient and remainder of (rem * Base^Len(x) + x) by d, for rem < d <= 4096
RECURSIVE BigDivRem(_, _, _)
BigDivRem(x, d, rem) ==
    IF x = <<>>
    THEN [q |-> <<>>, r |-> rem]
    ELSE LET cur == rem * Base + x[Len(x)]
             rest == BigDivRem(SubSeq(x, 1, Len(x) - 1), d, cur % d)
         IN  [q |-> Append(rest.q, cur \div d), r |-> rest.r]

RECURSIVE BigInc(_)
BigInc(x) ==
    IF x = <<>> THEN <<1>>
    ELSE IF Head(x) + 1 < Base THEN <<Head(x) + 1>> \o Tail(x)
    ELSE <<0>> \o BigInc(Tail(x))

BigOdd(x) == x # <<>> /\ x[1] % 2 = 1

RECURSIVE SmallBits(_)
SmallBits(n) == IF n = 0 THEN 0 ELSE 1 + SmallBits(n \div 2)

BitLen(x) ==
    LET t == BigTrim(x)
    IN  IF t = <<>> THEN 0 ELSE 18 * (Len(t) - 1) + SmallBits(t[Len(t)])

\* x >= y, both trimmed and of the same length, compared from limb i down
RECURSIVE BigGEFrom(_, _, _)
BigGEFrom(x, y, i) ==
    IF i = 0 THEN TRUE
    ELSE IF x[i] # y[i] THEN x[i] > y[i]
    ELSE BigGEFrom(x, y, i - 1)

BigGE(x, y) ==
    LET a == BigTrim(x)
        b == BigTrim(y)
    IN  IF Len(a) # Len(b) THEN Len(a) > Len(b) ELSE BigGEFrom(a, b, Len(a))

FloatZero == [m |-> <<>>, e |-> 0]

\* a rounded-up significand of 54 bits is 2^53: one bit less, exponent one more
FloatNorm(m, e) ==
    IF BitLen(m) > Significand
    THEN [m |-> BigTrim(BigDivRem(m, 2, 0).q), e |-> e + 1]
    ELSE [m |-> BigTrim(m), e |-> e]

RECURSIVE ShiftToReach(_, _, _)
ShiftToReach(a, b, k) == IF a >= b THEN k ELSE ShiftToReach(2 * a, b, k + 1)

\* a / b in binary64, for ints 0 <= a <= b, 0 < b <= 4096
true_div(a, b) ==
    IF a = 0 THEN FloatZero
    ELSE LET s == ShiftToReach(a, b, 0) + Significand - 1
             dr == BigDivRem(BigShl(<<a>>, s), b, 0)
             q == BigTrim(dr.q)
             up == 2 * dr.r > b \/ (2 * dr.r = b /\ BigOdd(q))
         IN  FloatNorm(IF up THEN BigInc(q) ELSE q, 0 - s)

\* f * c in binary64, for an int 1 <= c <= 4096
float_mul(f, c) ==
    IF f.m = <<>> THEN FloatZero
    ELSE LET p == BigMul(f.m, c)
             d == BitLen(p) - Significand
             dr == BigDivRem(p, Pow2(d), 0)
             q == BigTrim(dr.q)
             up == d > 0 /\ (2 * dr.r > Pow2(d) \/ (2 * dr.r = Pow2(d) /\ BigOdd(q)))
         IN  FloatNorm(IF up THEN BigInc(q) ELSE q, f.e + d)

\* f >= t, for a threshold t = t.num / 2^t.shift (a binary64 value)
float_ge(f, t) ==
    LET x == f.e + t.shift
    IN  IF x >= 0
        THEN BigGE(BigShl(f.m, x), BigTrim(<<t.num>>))
        ELSE BigGE(f.m, BigShl(BigTrim(<<t.num>>), 0 - x))

\* rate = (error_count / len(recent)) * 100.0
rate_of(error_count, total) == float_mul(true_div(error_count, total), 100)


(***************************************************************************)
(* The state.  The configuration is read from the environment when the     *)
(* module is loaded and never changes; the threshold float(...) is a       *)
(* record [num, shift] standing for the binary64 value num / 2^shift.      *)
(***************************************************************************)
VARIABLES
    WINDOW_SIZE, ERROR_RATE_THRESHOLD, ALERT_COOLDOWN, ACTIVE_POOL,
    MAINTENANCE_MODE, SLACK_WEBHOOK,
    last_pool,      \* the tracked pool
    recent,         \* the deque of 5xx flags, oldest first
    last_alert,     \* per kind, None or the time of the last granted alert
    request_count,  \* monitor's count of parsed records
    now,            \* the latest reading of datetime.utcnow()
    mpc,            \* where monitor stands: "pull" at the top of its loop, see Stages
    history,        \* every flag appended to recent so far, oldest first
    delivery,       \* per kind, what post_slack did with the last granted alert
    faults,         \* how many exceptions monitor's loop has caught
    obs,            \* what the latest line did: see Observe
    path,           \* the bytes of the file at LOG_PATH
    position,       \* tail_log's offset into the file
    tpc,            \* where tail_log stands: "poll", "read" or "yield"
    pending,        \* the lines of the chunk just read that are not yet yielded
    yielded,        \* the lines yielded since position was last 0
    truncations,    \* how often the file has been truncated or replaced
    stale,          \* the file was emptied under a position > 0 not yet reset
    resets,         \* how often tail_log has reset position
    errors          \* the position tail_log held at each poll that failed

config == <<WINDOW_SIZE, ERROR_RATE_THRESHOLD, ALERT_COOLDOWN, ACTIVE_POOL,
            MAINTENANCE_MODE, SLACK_WEBHOOK>>
engine == <<last_pool, recent, last_alert, request_count, now, mpc, history,
            delivery, faults, obs>>
tail == <<path, position, tpc, pending, yielded, truncations, stale, resets,
          errors>>
vars == <<config, engine, tail>>

Kinds == {"failover", "error_rate"}

Quiet == [k \in Kinds |-> "none"]

\* What the latest line did: the line, what parse_log_line returned, the pool
\* change detected (None, or old and new), per kind what the alert function
\* did ("none": not called, "suppressed", "granted"), when it read the clock,
\* what last_alert held before, what post_slack did, and the place where the
\* loop body raised an exception ("none": it did not).
Observe(line, record, event, gate, at, prev, slack, raised) ==
    [line |-> line, record |-> record, event |-> event, gate |-> gate,
     at |-> at, prev |-> prev, slack |-> slack, raised |-> raised]

InitEngine ==
    /\ last_pool = ACTIVE_POOL
    /\ recent = <<>>
    /\ last_alert = [k \in Kinds |-> None]
    /\ request_count = 0
    /\ now = 0
    /\ mpc = "pull"
    /\ history = <<>>
    /\ delivery = Quiet
    /\ faults = 0
    /\ obs = Observe(BlankLine, Dropped, None, Quiet, [k \in Kinds |-> 0],
                     [k \in Kinds |-> None], Quiet, "none")

InitTail ==
    /\ path = <<>>
    /\ position = 0
    /\ tpc = "poll"
    /\ pending = <<>>
    /\ yielded = <<>>
    /\ truncations = 0
    /\ stale = FALSE
    /\ resets = 0
    /\ errors = <<>>

(***************************************************************************)
(* monitor and the alert functions.                                        *)
(***************************************************************************)
\* is_5xx = 500 <= status <= 599
is_5xx(status) == 500 <= status /\ status <= 599

\* a faulty variant: a deque without maxlen
deque_append_unbounded(d, x, maxlen) == Append(d, x)

\* collections.deque(maxlen=WINDOW_SIZE).append(x)
deque_append(d, x, maxlen) ==
    IF maxlen = 0 THEN <<>>
    ELSE IF Len(d) >= maxlen THEN Append(Tail(d), x)
    ELSE Append(d, x)

\* sum(recent)
RECURSIVE sum(_)
sum(d) == IF d = <<>> THEN 0 ELSE (IF Head(d) THEN 1 ELSE 0) + sum(Tail(d))

\* a faulty variant: the window size is ignored
min_samples_fixed == 10

\* max(10, WINDOW_SIZE // 4)
min_samples == Max(10, WINDOW_SIZE \div 4)

\* a faulty variant: a full window is enough
enough_samples_or_full(d) == Len(d) >= min_samples \/ Len(d) >= WINDOW_SIZE

\* if len(recent) >= max(10, WINDOW_SIZE // 4)
enough_samples(d) == Len(d) >= min_samples

\* if rate >= ERROR_RATE_THRESHOLD
rate_elevated(d) == float_ge(rate_of(sum(d), Len(d)), ERROR_RATE_THRESHOLD)

\* a faulty variant: no comparison with the tracked pool
pool_changed_whenever_present(pool) == pool # None

\* if pool: if pool != last_pool
pool_changed(pool) == pool # None /\ pool[1] # last_pool

\* a faulty variant: the tracked pool follows only when the alert is granted
next_pool_if_granted(changed, pool, gate) ==
    IF changed /\ gate = "granted" THEN pool[1] ELSE last_pool

\* old_pool = last_pool; last_pool = pool: before send_failover_alert is called
next_pool(changed, pool, gate) == IF changed THEN pool[1] ELSE last_pool

\* a faulty variant: <= for <
in_cooldown_inclusive(last, t) == last # None /\ t - last[1] <= ALERT_COOLDOWN

\* if last_alert[kind]: elapsed = ...; if elapsed < ALERT_COOLDOWN: return
in_cooldown(last, t) == last # None /\ t - last[1] < ALERT_COOLDOWN

\* a faulty variant: one timestamp for both kinds, the later of the two
last_fired_shared(k) ==
    IF \A j \in Kinds : last_alert[j] = None THEN None
    ELSE Some(Max(IF last_alert["failover"] = None THEN 0 ELSE last_alert["failover"][1],
                  IF last_alert["error_rate"] = None THEN 0
                  ELSE last_alert["error_rate"][1]))

\* last_alert['failover'] in the one function, last_alert['error_rate'] in the other
last_fired(k) == last_alert[k]

\* a faulty variant: the timestamp is kept only when the delivery did not fail
alert_recorded_if_delivered(gate, outcome) == gate = "granted" /\ outcome # "failed"

\* last_alert[kind] = now comes before post_slack and whatever post_slack does
alert_recorded(gate, outcome) == gate = "granted"

\* the gate of send_failover_alert and send_error_rate_alert at time t
gate_of(detected, last, t) ==
    IF ~detected THEN "none"
    ELSE IF in_cooldown(last, t) THEN "suppressed"
    ELSE "granted"

\* a faulty variant: MAINTENANCE_MODE is not looked at
post_slack_without_maintenance(delivers) ==
    IF ~SLACK_WEBHOOK THEN "no_webhook"
    ELSE IF delivers THEN "posted"
    ELSE "failed"

\* post_slack: what becomes of a granted alert (delivers: requests.post succeeds)
post_slack(delivers) ==
    IF MAINTENANCE_MODE THEN "maintenance"
    ELSE IF ~SLACK_WEBHOOK THEN "no_webhook"
    ELSE IF delivers THEN "posted"
    ELSE "failed"

Switches(h) == Cardinality({i \in 1..(Len(h) - 1) : h[i] # h[i + 1]})

\* a line parse_log_line drops: monitor continues with the next line
DropLine(line) ==
    /\ mpc = "pull"
    /\ parse_log_line(line).status = None
    /\ obs' = Observe(line, Dropped, None, Quiet, [k \in Kinds |-> 0],
                      last_alert, Quiet, "none")
    /\ UNCHANGED <<last_pool, recent, last_alert, request_count, now, mpc, history,
                   delivery, faults>>
    /\ UNCHANGED <<config, tail>>

\* the two alert functions, once the loop body has detected what it detects:
\* the clock reads tf in send_failover_alert and tr in send_error_rate_alert;
\* transport holds the outcomes requests.post can have (TRUE: it succeeds)
Dispatch(line, record, window, changed, elevated, maxTime, transport) ==
    \E tf \in now..maxTime :
      \E tr \in tf..maxTime :
        /\ changed \/ tf = now
        /\ elevated \/ tr = tf
        /\ \E delivers \in [Kinds -> transport] :
            LET at == [k \in Kinds |-> IF k = "failover" THEN tf ELSE tr]
                gate == [k \in Kinds |->
                            gate_of(IF k = "failover" THEN changed ELSE elevated,
                                    last_fired(k), at[k])]
            IN  /\ \A k \in Kinds : gate[k] = "granted" \/ delivers[k]
                /\ mpc = "pull"
                /\ mpc' = mpc
                /\ faults' = faults
                /\ request_count' = request_count + 1
                /\ recent' = window
                /\ history' = Append(history, is_5xx(record.status[1]))
                /\ last_pool' = next_pool(changed, record.pool, gate["failover"])
                /\ last_alert' = [k \in Kinds |->
                                    IF alert_recorded(gate[k], post_slack(delivers[k]))
                                    THEN Some(at[k])
                                    ELSE last_alert[k]]
                /\ now' = tr
                /\ delivery' = [k \in Kinds |->
                                   IF gate[k] = "granted" THEN post_slack(delivers[k])
                                   ELSE delivery[k]]
                /\ obs' = Observe(line, record,
                                  IF changed
                                  THEN Some([old |-> last_pool, new |-> record.pool[1]])
                                  ELSE None,
                                  gate, at, last_alert,
                                  [k \in Kinds |->
                                      IF gate[k] = "granted"
                                      THEN post_slack(delivers[k])
                                      ELSE "none"],
                                  "none")
                /\ UNCHANGED <<config, tail>>

\* the error-rate check on the window the record has been appended to
Evaluate(line, record, window, changed, maxTime, transport) ==
    Dispatch(line, record, window, changed,
             enough_samples(window) /\ rate_elevated(window), maxTime, transport)

\* the window append and the pool comparison
Track(line, record, maxSwitches, maxTime, transport) ==
    /\ record.status # None
    /\ Switches(Append(history, is_5xx(record.status[1]))) <= maxSwitches
    /\ Evaluate(line, record,
                deque_append(recent, is_5xx(record.status[1]), WINDOW_SIZE),
                pool_changed(record.pool), maxTime, transport)

\* the body of monitor's loop for a line parse_log_line accepts
ProcessRecord(line, maxRequests, maxSwitches, maxTime, transport) ==
    /\ request_count < maxRequests
    /\ Track(line, parse_log_line(line), maxSwitches, maxTime, transport)

(***************************************************************************)
(* The lines the model feeds the monitor.                                  *)
(***************************************************************************)
Lines ==
    { Garbage, NonObject,
      Obj(JInt(200), Absent), Obj(JInt(503), Absent),
      Obj(JInt(200), JStr(green)), Obj(JInt(200), JStr(blue)),
      Obj(JInt(503), JStr(<<" ">> \o green \o <<" ">>)),
      Obj(JInt(200), JStr(<<"-">>)), Obj(JInt(200), JStr(<<>>)),
      Obj(JInt(200), JNull),
      Obj(Absent, JStr(green)),
      Obj(JStr(<<"a", "b", "c">>), JStr(green)),
      Obj(JStr(<<"5", "0", "3">>), Absent) }

\* the lines of SpecWindow and SpecRate
WindowLines ==
    { Garbage, Obj(JInt(200), Absent), Obj(JInt(503), Absent),
      Obj(JInt(200), JStr(green)), Obj(JInt(200), JStr(blue)) }

RateLines == { Garbage, Obj(JInt(200), Absent), Obj(JInt(503), Absent) }

(***************************************************************************)
(* Spec: the monitor loop fed every kind of line, a few records long.      *)
(***************************************************************************)
Init ==
    /\ WINDOW_SIZE = 11
    /\ ERROR_RATE_THRESHOLD = [num |-> 20, shift |-> 0]
    /\ ALERT_COOLDOWN = 2
    /\ ACTIVE_POOL = blue
    /\ MAINTENANCE_MODE = FALSE
    /\ SLACK_WEBHOOK = TRUE
    /\ InitEngine
    /\ InitTail

Next ==
    \/ \E line \in Lines : DropLine(line)
    \/ \E line \in Lines :
           ProcessRecord(line, MaxRequests, MaxSwitches, MaxTime, BOOLEAN)

Spec == Init /\ [][Next]_vars


(***************************************************************************)
(* SpecWindow: the monitor loop run until the window is full and evicts,   *)
(* with both kinds of alert and the clock, and a transport that delivers.  *)
(***************************************************************************)
NextWindow ==
    \/ \E line \in WindowLines : DropLine(line)
    \/ \E line \in WindowLines :
           ProcessRecord(line, MaxRequestsWindow, MaxSwitchesWindow, MaxTimeWindow,
                         {TRUE})

SpecWindow == Init /\ [][NextWindow]_vars

(***************************************************************************)
(* SpecRate: a window of 12 or of 44 records (the minimum sample count is  *)
(* 10 for the one and 44 // 4 = 11 for the other), a threshold of 57.5 %,   *)
(* no cooldown and a transport that delivers.                              *)
(***************************************************************************)
InitRate ==
    /\ WINDOW_SIZE \in {12, 44}
    /\ ERROR_RATE_THRESHOLD = [num |-> 115, shift |-> 1]
    /\ ALERT_COOLDOWN = 0
    /\ ACTIVE_POOL = blue
    /\ MAINTENANCE_MODE = FALSE
    /\ SLACK_WEBHOOK = TRUE
    /\ InitEngine
    /\ InitTail

NextRate ==
    \/ \E line \in RateLines : DropLine(line)
    \/ \E line \in RateLines :
           ProcessRecord(line, MaxRequestsRate, MaxSwitchesRate, MaxTimeRate, {TRUE})

SpecRate == InitRate /\ [][NextRate]_vars


(***************************************************************************)
(* SpecSmall: windows of capacity 0, 9 and 10, around the least sample     *)
(* count of 10, with no cooldown and a threshold of 20 %.                   *)
(***************************************************************************)
InitSmall ==
    /\ WINDOW_SIZE \in {0, 9, 10}
    /\ ERROR_RATE_THRESHOLD = [num |-> 20, shift |-> 0]
    /\ ALERT_COOLDOWN = 0
    /\ ACTIVE_POOL = blue
    /\ MAINTENANCE_MODE = FALSE
    /\ SLACK_WEBHOOK = TRUE
    /\ InitEngine
    /\ InitTail

NextSmall ==
    \/ \E line \in RateLines : DropLine(line)
    \/ \E line \in RateLines :
           ProcessRecord(line, MaxRequestsSmall, MaxSwitchesSmall, MaxTimeSmall, {TRUE})

SpecSmall == InitSmall /\ [][NextSmall]_vars

(***************************************************************************)
(* SpecNotify: the monitor loop with a transport that may fail and with    *)
(* maintenance mode on or off, run until the window holds enough samples.  *)
(***************************************************************************)
NotifyLines ==
    { Garbage, Obj(JInt(200), Absent), Obj(JInt(503), Absent),
      Obj(JInt(503), JStr(green)), Obj(JInt(503), JStr(blue)) }

InitNotify ==
    /\ WINDOW_SIZE = 11
    /\ ERROR_RATE_THRESHOLD = [num |-> 20, shift |-> 0]
    /\ ALERT_COOLDOWN = 2
    /\ ACTIVE_POOL = blue
    /\ MAINTENANCE_MODE \in BOOLEAN
    /\ SLACK_WEBHOOK = TRUE
    /\ InitEngine
    /\ InitTail

NextNotify ==
    \/ \E line \in NotifyLines : DropLine(line)
    \/ \E line \in NotifyLines :
           ProcessRecord(line, MaxRequestsNotify, MaxSwitchesNotify, MaxTimeNotify,
                         BOOLEAN)

SpecNotify == InitNotify /\ [][NextNotify]_vars

(***************************************************************************)
(* SpecDispatch: the loop body in the steps between which a call of        *)
(* post_slack is in flight.  monitor calls send_failover_alert and         *)
(* send_error_rate_alert, and these call post_slack, in the loop body      *)
(* itself: the next line is pulled when the body has returned.             *)
(***************************************************************************)
Stages == {"pull", "post_failover", "check_rate", "post_error_rate", "exited"}

\* requests.post(SLACK_WEBHOOK, json=payload, timeout=5) has been called and
\* has not returned
InFlight ==
    /\ mpc \in {"post_failover", "post_error_rate"}
    /\ ~MAINTENANCE_MODE
    /\ SLACK_WEBHOOK

\* from the top of the loop body to the call of post_slack for a failover,
\* or to the error-rate check when no failover alert is granted
BeginRecord(line, maxRequests, maxSwitches, maxTime) ==
    LET record == parse_log_line(line) IN
    /\ mpc = "pull"
    /\ record.status # None
    /\ request_count < maxRequests
    /\ Switches(Append(history, is_5xx(record.status[1]))) <= maxSwitches
    /\ request_count' = request_count + 1
    /\ recent' = deque_append(recent, is_5xx(record.status[1]), WINDOW_SIZE)
    /\ history' = Append(history, is_5xx(record.status[1]))
    /\ \E tf \in now..maxTime :
          LET gate == gate_of(pool_changed(record.pool), last_fired("failover"), tf)
          IN  /\ pool_changed(record.pool) \/ tf = now
              /\ last_pool' = next_pool(pool_changed(record.pool), record.pool, gate)
              /\ now' = tf
              /\ last_alert' = IF alert_recorded(gate, "none")
                               THEN [last_alert EXCEPT !["failover"] = Some(tf)]
                               ELSE last_alert
              /\ mpc' = IF gate = "granted" THEN "post_failover" ELSE "check_rate"
              /\ obs' = Observe(line, record,
                                IF pool_changed(record.pool)
                                THEN Some([old |-> last_pool, new |-> record.pool[1]])
                                ELSE None,
                                [Quiet EXCEPT !["failover"] = gate],
                                [k \in Kinds |-> IF k = "failover" THEN tf ELSE 0],
                                last_alert, Quiet, "none")
    /\ UNCHANGED <<delivery, faults>>
    /\ UNCHANGED <<config, tail>>

\* post_slack returns: the alert was posted, or the call failed or timed out
PostReturns(transport) ==
    LET k == IF mpc = "post_failover" THEN "failover" ELSE "error_rate" IN
    /\ mpc \in {"post_failover", "post_error_rate"}
    /\ \E delivers \in transport :
          /\ obs' = [obs EXCEPT !.slack[k] = post_slack(delivers)]
          /\ delivery' = [delivery EXCEPT ![k] = post_slack(delivers)]
    /\ mpc' = IF mpc = "post_failover" THEN "check_rate" ELSE "pull"
    /\ UNCHANGED <<last_pool, recent, last_alert, request_count, now, history, faults>>
    /\ UNCHANGED <<config, tail>>

\* the error-rate check, to the call of post_slack for an error rate or to
\* the end of the loop body
CheckRate(maxTime) ==
    LET elevated == enough_samples(recent) /\ rate_elevated(recent) IN
    /\ mpc = "check_rate"
    /\ \E tr \in now..maxTime :
          LET gate == gate_of(elevated, last_fired("error_rate"), tr)
          IN  /\ elevated \/ tr = now
              /\ now' = tr
              /\ last_alert' = IF alert_recorded(gate, "none")
                               THEN [last_alert EXCEPT !["error_rate"] = Some(tr)]
                               ELSE last_alert
              /\ mpc' = IF gate = "granted" THEN "post_error_rate" ELSE "pull"
              /\ obs' = [obs EXCEPT !.gate["error_rate"] = gate,
                                    !.at["error_rate"] = tr]
    /\ UNCHANGED <<last_pool, recent, request_count, history, delivery, faults>>
    /\ UNCHANGED <<config, tail>>

\* the for statement takes the next line from tail_log and the body starts
PullNext ==
    \E line \in NotifyLines :
        \/ DropLine(line)
        \/ BeginRecord(line, MaxRequestsDispatch + 1, MaxSwitchesDispatch, MaxTimeDispatch)

NextDispatch ==
    \/ \E line \in NotifyLines : DropLine(line)
    \/ \E line \in NotifyLines :
           BeginRecord(line, MaxRequestsDispatch, MaxSwitchesDispatch, MaxTimeDispatch)
    \/ PostReturns(BOOLEAN)
    \/ CheckRate(MaxTimeDispatch)

SpecDispatch == Init /\ [][NextDispatch]_vars

(***************************************************************************)
(* SpecFaults: the monitor loop when a statement of its body raises.  The  *)
(* statements that can are the ones that write to stdout or format a       *)
(* message: the print of a detected pool change, before last_pool is       *)
(* assigned ("detect"), and the bodies of send_failover_alert ("failover") *)
(* and send_error_rate_alert ("error_rate") after the cooldown check.      *)
(***************************************************************************)
RaiseStages == {"detect", "failover", "error_rate"}

\* the alert function a stage belongs to
stage_kind(stage) == IF stage = "error_rate" THEN "error_rate" ELSE "failover"

\* a faulty variant: no handler, the exception ends the loop
on_exception_unhandled(stage) == "exited"

\* except Exception as e: print(...); the for loop goes on with the next line
on_exception(stage) == "pull"

\* the body of the loop up to the statement that raises, then the handler
RecordRaises(line, stage, maxRequests, maxSwitches, maxTime, transport) ==
    LET record == parse_log_line(line) IN
    /\ mpc = "pull"
    /\ faults < MaxFaults
    /\ record.status # None
    /\ request_count < maxRequests
    /\ Switches(Append(history, is_5xx(record.status[1]))) <= maxSwitches
    /\ LET window == deque_append(recent, is_5xx(record.status[1]), WINDOW_SIZE)
           changed == pool_changed(record.pool)
       IN  /\ stage = "error_rate" => enough_samples(window) /\ rate_elevated(window)
           /\ stage # "error_rate" => changed
           /\ request_count' = request_count + 1
           /\ recent' = window
           /\ history' = Append(history, is_5xx(record.status[1]))
           /\ \E tf \in now..maxTime, tr \in now..maxTime, delivers \in transport :
                LET at == [k \in Kinds |-> IF k = "failover" THEN tf ELSE tr]
                    gate == [k \in Kinds |->
                               IF k = "failover"
                               THEN gate_of(changed /\ stage # "detect",
                                            last_fired(k), tf)
                               ELSE gate_of(stage = "error_rate", last_fired(k), tr)]
                    sent == [k \in Kinds |->
                               IF k = "failover" /\ stage = "error_rate"
                                  /\ gate[k] = "granted"
                               THEN post_slack(delivers) ELSE "none"]
                IN  /\ tf <= tr
                    /\ (changed /\ stage # "detect") \/ tf = now
                    /\ stage = "error_rate" \/ tr = tf
                    /\ gate["failover"] = "granted" \/ stage # "error_rate" \/ delivers
                    /\ stage = "error_rate" \/ delivers
                    /\ gate[stage_kind(stage)] = "granted" \/ stage = "detect"
                    /\ now' = tr
                    /\ last_pool' = IF stage = "detect" THEN last_pool
                                    ELSE next_pool(changed, record.pool, gate["failover"])
                    /\ last_alert' = [k \in Kinds |->
                                        IF gate[k] = "granted" THEN Some(at[k])
                                        ELSE last_alert[k]]
                    /\ delivery' = [k \in Kinds |->
                                       IF sent[k] # "none" THEN sent[k] ELSE delivery[k]]
                    /\ obs' = Observe(line, record,
                                      IF changed /\ stage # "detect"
                                      THEN Some([old |-> last_pool, new |-> record.pool[1]])
                                      ELSE None,
                                      gate, at, last_alert, sent, stage)
    /\ faults' = faults + 1
    /\ mpc' = on_exception(stage)
    /\ UNCHANGED <<config, tail>>

NextFaults ==
    \/ \E line \in NotifyLines : DropLine(line)
    \/ \E line \in NotifyLines :
           ProcessRecord(line, MaxRequestsFaults, MaxSwitchesFaults, MaxTimeFaults,
                         {TRUE})
    \/ \E line \in NotifyLines, stage \in RaiseStages :
           RecordRaises(line, stage, MaxRequestsFaults, MaxSwitchesFaults,
                        MaxTimeFaults, {TRUE})

SpecFaults == Init /\ [][NextFaults]_vars

(***************************************************************************)
(* tail_log.  The file is a sequence of one-byte characters; the model's   *)
(* files hold letters, blanks and "\n", the one line boundary of           *)
(* str.splitlines they can hold.                                           *)
(***************************************************************************)
RECURSIVE FirstNewline(_, _)
FirstNewline(s, i) ==
    IF i > Len(s) THEN 0 ELSE IF s[i] = "\n" THEN i ELSE FirstNewline(s, i + 1)

\* new_data.splitlines(): a last piece without a newline is a line too
RECURSIVE splitlines(_)
splitlines(s) ==
    IF s = <<>> THEN <<>>
    ELSE IF FirstNewline(s, 1) = 0 THEN <<s>>
    ELSE <<SubSeq(s, 1, FirstNewline(s, 1) - 1)>>
         \o splitlines(SubSeq(s, FirstNewline(s, 1) + 1, Len(s)))

\* for line in ...: if line.strip(): yield line.strip()
RECURSIVE stripped_lines(_)
stripped_lines(ls) ==
    IF ls = <<>> THEN <<>>
    ELSE (IF strip(Head(ls)) # <<>> THEN <<strip(Head(ls))>> ELSE <<>>)
         \o stripped_lines(Tail(ls))

\* f.seek(position); f.read(): a seek past the end reads nothing
read_from(data, pos) == SubSeq(data, pos + 1, Len(data))

\* a faulty variant: the position is set to the new size
reset_position_to_size(size, pos) == size

\* elif size < position: position = 0
reset_position(size, pos) == 0

\* one pass of the loop up to the comparison of the size with the position:
\* the file has grown (the read follows), was truncated (reset), or neither
TailStat ==
    /\ tpc = "poll"
    /\ IF Len(path) > position
       THEN /\ tpc' = "read"
            /\ UNCHANGED <<position, yielded, stale, resets>>
       ELSE IF Len(path) < position
       THEN /\ position' = reset_position(Len(path), position)
            /\ yielded' = <<>>
            /\ stale' = FALSE
            /\ resets' = resets + 1
            /\ tpc' = "poll"
       ELSE UNCHANGED <<position, yielded, stale, resets, tpc>>
    /\ UNCHANGED <<path, pending, truncations, errors>>
    /\ UNCHANGED <<config, engine>>

\* open, seek, read, tell: the file may have changed since the size was taken
TailRead ==
    /\ tpc = "read"
    /\ IF read_from(path, position) # <<>>
       THEN /\ position' = Len(path)
            /\ pending' = stripped_lines(splitlines(read_from(path, position)))
            /\ tpc' = IF stripped_lines(splitlines(read_from(path, position))) # <<>>
                      THEN "yield" ELSE "poll"
       ELSE /\ tpc' = "poll"
            /\ UNCHANGED <<position, pending>>
    /\ UNCHANGED <<path, yielded, truncations, stale, resets, errors>>
    /\ UNCHANGED <<config, engine>>

\* yield line.strip(): the next line of the chunk goes to the caller
TailYield ==
    /\ tpc = "yield"
    /\ yielded' = Append(yielded, Head(pending))
    /\ pending' = Tail(pending)
    /\ tpc' = IF Tail(pending) = <<>> THEN "poll" ELSE "yield"
    /\ UNCHANGED <<path, position, truncations, stale, resets, errors>>
    /\ UNCHANGED <<config, engine>>

\* if not os.path.exists(path): sleep(1); continue
TailMissing ==
    /\ tpc = "poll"
    /\ Len(errors) < MaxErrors
    /\ errors' = Append(errors, position)
    /\ UNCHANGED <<path, position, tpc, pending, yielded, truncations, stale, resets>>
    /\ UNCHANGED <<config, engine>>

\* a faulty variant: no handler, the exception ends the generator
on_poll_error_ends == "done"

\* except Exception as e: print(...); sleep(1): the while loop goes on
on_poll_error == "poll"

\* os.path.getsize raises (at "poll"), or open, seek or read does (at "read")
TailError ==
    /\ tpc \in {"poll", "read"}
    /\ Len(errors) < MaxErrors
    /\ errors' = Append(errors, position)
    /\ tpc' = on_poll_error
    /\ UNCHANGED <<path, position, pending, yielded, truncations, stale, resets>>
    /\ UNCHANGED <<config, engine>>

(***************************************************************************)
(* The writer of the log file.                                             *)
(***************************************************************************)
LogLines == { <<"a">>, <<"b">>, <<" ", "a", " ">>, <<" ">> }
LogBytes == { "a", "b", " ", "\n" }

\* one write of a whole line and its newline
WriteLine(maxFile) ==
    \E l \in LogLines :
        /\ Len(path) + Len(l) + 1 <= maxFile
        /\ path' = path \o l \o <<"\n">>
        /\ UNCHANGED <<position, tpc, pending, yielded, truncations, stale, resets,
                       errors>>
        /\ UNCHANGED <<config, engine>>

\* one write of a single byte: a line reaches the file in pieces
WriteByte(maxFile) ==
    \E c \in LogBytes :
        /\ Len(path) + 1 <= maxFile
        /\ path' = Append(path, c)
        /\ UNCHANGED <<position, tpc, pending, yielded, truncations, stale, resets,
                       errors>>
        /\ UNCHANGED <<config, engine>>

\* the file is truncated to nothing, or replaced by a new empty file
Truncate ==
    /\ truncations < MaxTruncations
    /\ path # <<>>
    /\ path' = <<>>
    /\ truncations' = truncations + 1
    /\ stale' = (stale \/ position > 0)
    /\ UNCHANGED <<position, tpc, pending, yielded, resets, errors>>
    /\ UNCHANGED <<config, engine>>

(***************************************************************************)
(* SpecTail: tail_log on a file written a whole line at a time and         *)
(* truncated now and then.                                                 *)
(***************************************************************************)
NextTail ==
    \/ WriteLine(MaxFile)
    \/ Truncate
    \/ TailStat
    \/ TailRead
    \/ TailYield

SpecTail == Init /\ [][NextTail]_vars

(***************************************************************************)
(* SpecAppend: tail_log on a file that only grows, a byte at a time.       *)
(***************************************************************************)
NextAppend ==
    \/ WriteByte(MaxFileAppend)
    \/ TailStat
    \/ TailRead
    \/ TailYield

SpecAppend == Init /\ [][NextAppend]_vars

(***************************************************************************)
(* SpecPoll: tail_log on a file that only grows, a whole line at a time,   *)
(* with polls that find the file missing or fail with an I/O error.  The   *)
(* while loop of tail_log runs as long as its consumer asks for lines, so  *)
(* each of its steps is taken when it stays possible.                      *)
(***************************************************************************)
NextPoll ==
    \/ WriteLine(MaxFilePoll)
    \/ TailStat
    \/ TailRead
    \/ TailYield
    \/ TailMissing
    \/ TailError

SpecPoll ==
    /\ Init
    /\ [][NextPoll]_vars
    /\ WF_vars(TailStat)
    /\ WF_vars(TailRead)
    /\ WF_vars(TailYield)

(***************************************************************************)
(* The properties.                                                         *)
(***************************************************************************)
Processed == obs.record # Dropped

\* C1: for each kind separately, a detection at time t is granted exactly
\* when no alert of that kind was granted before or t - lastFiredAt >=
\* cooldown; a grant records t as lastFiredAt and a suppressed attempt leaves
\* lastFiredAt alone, so two consecutive grants of a kind are at least the
\* cooldown apart.
C1_CooldownGate ==
    \A k \in Kinds :
        /\ obs.gate[k] # "none" =>
              (obs.gate[k] = "granted" <=>
                  (obs.prev[k] = None \/ obs.at[k] - obs.prev[k][1] >= ALERT_COOLDOWN))
        /\ obs.gate[k] = "granted" => last_alert[k] = Some(obs.at[k])
        /\ obs.gate[k] # "granted" => last_alert[k] = obs.prev[k]
        /\ (obs.gate[k] = "granted" /\ obs.prev[k] # None) =>
              obs.at[k] - obs.prev[k][1] >= ALERT_COOLDOWN

\* C1 witness: one record re-grants a failover alert once the cooldown has
\* elapsed while its error-rate alert is still suppressed.
C1_Witness ==
    /\ obs.gate["failover"] = "granted"
    /\ obs.prev["failover"] # None
    /\ obs.gate["error_rate"] = "suppressed"

\* C2: the window is never longer than its capacity, its length is the
\* smaller of the number of records appended and the capacity, and it holds
\* the flags of the most recent records in arrival order.
C2_WindowFifo ==
    /\ Len(recent) <= WINDOW_SIZE
    /\ Len(recent) = Min(Len(history), WINDOW_SIZE)
    /\ recent = SubSeq(history, Len(history) - Len(recent) + 1, Len(history))

\* C2 witness: more records than the capacity were appended and the oldest
\* one, now evicted, differed from the oldest one kept.
C2_Witness ==
    /\ Len(history) > WINDOW_SIZE
    /\ history[1] # recent[1]

\* C3: no error-rate alert is attempted while the window holds fewer than
\* max(10, capacity // 4) samples, and a record that brings the window to
\* that count or beyond with nothing but 5xx flags is followed by an attempt.
C3_MinSamples ==
    LET least == IF WINDOW_SIZE \div 4 > 10 THEN WINDOW_SIZE \div 4 ELSE 10
    IN  /\ obs.gate["error_rate"] # "none" => Len(recent) >= least
        /\ (Processed /\ Len(recent) >= least /\ \A i \in 1..Len(recent) : recent[i])
              => obs.gate["error_rate"] # "none"

\* C3 witness: with a capacity of 44 the first attempt comes with the
\* eleventh sample.
C3_Witness ==
    /\ WINDOW_SIZE = 44
    /\ Len(recent) = 11
    /\ obs.gate["error_rate"] # "none"

\* the real number 100 * error_count / total is at least the threshold
exact_rate_ge(error_count, total, t) ==
    100 * error_count * Pow2(t.shift) >= t.num * total

\* C4: with enough samples in the window, an error-rate alert is attempted
\* exactly when the rate 100 * errors / length is at least the threshold, the
\* rate equal to the threshold included.
C4_InclusiveThreshold ==
    (Processed /\ Len(recent) >= Max(10, WINDOW_SIZE \div 4)) =>
        (obs.gate["error_rate"] # "none"
            <=> exact_rate_ge(sum(recent), Len(recent), ERROR_RATE_THRESHOLD))

\* C5: a record whose pool label is present and differs from the tracked
\* pool gives one change event with the old and the new pool and one failover
\* attempt (granted when it is the first); a record that repeats the tracked
\* label, or the label of the record before it, gives none.
C5_OneEventPerChange ==
    [][ obs'.record # Dropped =>
          /\ (obs'.record.pool # None /\ obs'.record.pool[1] # last_pool) =>
                /\ obs'.event = Some([old |-> last_pool, new |-> obs'.record.pool[1]])
                /\ obs'.gate["failover"] # "none"
                /\ last_alert["failover"] = None => obs'.gate["failover"] = "granted"
                /\ last_pool' = obs'.record.pool[1]
          /\ (obs'.record.pool # None /\ obs'.record.pool[1] = last_pool) =>
                /\ obs'.event = None
                /\ obs'.gate["failover"] = "none"
                /\ last_pool' = last_pool
          /\ (Processed /\ obs.record.pool # None /\ obs'.record.pool = obs.record.pool) =>
                obs'.event = None ]_vars

\* C5 witness: a record labelled green after the pool has changed from the
\* initial blue to green: it gives no event.
C5_Witness ==
    /\ ACTIVE_POOL = blue
    /\ Processed
    /\ obs.record.pool = Some(green)
    /\ last_pool = green
    /\ obs.event = None
    /\ last_alert["failover"] # None

\* C6: a line whose pool label is missing, empty or "-" leaves the tracked
\* pool as it is, gives no change event and no failover attempt.
C6_AbsentPool ==
    [][ (obs'.line.json = "object"
         /\ obs'.line.pool \in {Absent, JStr(<<>>), JStr(<<"-">>)}) =>
          /\ last_pool' = last_pool
          /\ obs'.event = None
          /\ obs'.gate["failover"] = "none"
          /\ last_alert'["failover"] = last_alert["failover"] ]_vars

\* C6 witness: a record labelled "-" was processed while the tracked pool
\* was green.
C6_Witness ==
    /\ Processed
    /\ obs.line.pool = JStr(<<"-">>)
    /\ last_pool = green

\* C7: a line that decodes to an object whose status is missing or not
\* numeric is dropped by the parser.
C7_MissingStatusDropped ==
    (obs.line.json = "object"
     /\ \/ obs.line.status.tag \in {"absent", "null"}
        \/ obs.line.status.tag = "str" /\ ~int_of_text(obs.line.status.text).ok)
    => obs.record = Dropped

\* C8: a line that fails to decode is dropped and leaves the window, the
\* tracked pool and both cooldown timestamps as they were; the line after it
\* is counted and appended as any other.
C8_DecodeFailureFrame ==
    [][ /\ obs'.line.json = "invalid" =>
              /\ obs'.record = Dropped
              /\ \A k \in Kinds : obs'.gate[k] = "none"
              /\ UNCHANGED <<recent, last_pool, last_alert, request_count, history>>
        /\ (obs.line.json = "invalid" /\ obs'.record # Dropped) =>
              /\ request_count' = request_count + 1
              /\ Len(history') = Len(history) + 1 ]_vars

\* C8 witness: a line that failed to decode arrived when the window held
\* enough samples at an elevated rate.
C8_Witness ==
    /\ obs.line = Garbage
    /\ Len(recent) >= 10
    /\ 100 * sum(recent) >= 20 * Len(recent)

\* the complete lines of a text: each piece that ends in a newline, trimmed,
\* the blank ones left out
RECURSIVE CompleteLines(_)
CompleteLines(s) ==
    IF FirstNewline(s, 1) = 0 THEN <<>>
    ELSE (IF strip(SubSeq(s, 1, FirstNewline(s, 1) - 1)) # <<>>
          THEN <<strip(SubSeq(s, 1, FirstNewline(s, 1) - 1))>>
          ELSE <<>>)
         \o CompleteLines(SubSeq(s, FirstNewline(s, 1) + 1, Len(s)))

\* C9: a poll that finds the file shorter than the position sets the
\* position to 0 and yields nothing; from then on (and as long as the file is
\* not emptied again under a position > 0) what has been yielded or is about
\* to be is exactly the lines of the file up to the position, each once and
\* in order.
C9_TruncationReset ==
    /\ [](~stale => yielded \o pending = CompleteLines(SubSeq(path, 1, position)))
    /\ [][ (tpc = "poll" /\ Len(path) < position /\ path' = path) =>
              /\ position' = 0
              /\ pending' = <<>> /\ pending = <<>>
              /\ tpc' = "poll" ]_vars

\* C9 witness: after a reset, lines of the new file have been yielded and the
\* reader has caught up with the file.
C9_Witness ==
    /\ resets > 0
    /\ ~stale
    /\ tpc = "poll"
    /\ position = Len(path)
    /\ Len(yielded) >= 2

\* C10: whenever the file ends with a complete line and the reader has read
\* all of it, the lines yielded or about to be are the complete lines of the
\* file, each once and in file order.
C10_WholeLinesOnly ==
    (path # <<>> /\ path[Len(path)] = "\n" /\ position = Len(path))
    => yielded \o pending = CompleteLines(path)

\* C11: a granted alert whose delivery fails keeps its timestamp, the loop
\* body completes as for any record (the error-rate check after a failed
\* failover delivery included), nothing is posted without a new grant, and
\* the next detection of that kind within the cooldown is suppressed and
\* changes nothing.
C11_FailedDeliveryConsumes ==
    /\ [](\A k \in Kinds : delivery[k] = "failed" => last_alert[k] # None)
    /\ [][ \A k \in Kinds :
            /\ obs'.slack[k] = "failed" =>
                  /\ obs'.gate[k] = "granted"
                  /\ last_alert'[k] = Some(obs'.at[k])
                  /\ obs'.raised = "none"
                  /\ request_count' = request_count + 1
                  /\ mpc' = "pull"
            /\ (obs'.slack["failover"] = "failed"
                 /\ Len(recent') >= Max(10, WINDOW_SIZE \div 4)
                 /\ \A i \in 1..Len(recent') : recent'[i]) =>
                  obs'.gate["error_rate"] # "none"
            /\ obs'.slack[k] # "none" => obs'.gate[k] = "granted"
            /\ (delivery[k] = "failed" /\ obs'.gate[k] # "none"
                 /\ obs'.at[k] - last_alert[k][1] < ALERT_COOLDOWN) =>
                  /\ obs'.gate[k] = "suppressed"
                  /\ obs'.slack[k] = "none"
                  /\ last_alert'[k] = last_alert[k]
                  /\ delivery'[k] = "failed" ]_vars

\* C11 witness: a failover detected within the cooldown of a failover alert
\* whose delivery failed is suppressed, in a record whose error-rate alert
\* was attempted.
C11_Witness ==
    /\ delivery["failover"] = "failed"
    /\ obs.gate["failover"] = "suppressed"
    /\ obs.gate["error_rate"] # "none"

\* C12: while a call of the notifier is in flight the monitor loop can take
\* the next line from the line source and process it.
C12_IngestionNotStalled == InFlight => ENABLED PullNext

\* C13: the gate of a kind reads and writes the timestamp of that kind only:
\* a record that attempts no alert of a kind leaves that kind's timestamp as
\* it was, whatever happens to the other kind; an attempt is suppressed
\* exactly when its own kind's timestamp is set and less than the cooldown
\* old; and a timestamp changes only to the time of its own kind's grant.
C13_KindsIndependent ==
    [][ \A k \in Kinds :
          /\ obs'.gate[k] = "none" => last_alert'[k] = last_alert[k]
          /\ obs'.gate[k] # "none" =>
                (obs'.gate[k] = "suppressed" <=>
                    (last_alert[k] # None
                     /\ obs'.at[k] - last_alert[k][1] < ALERT_COOLDOWN))
          /\ obs'.gate[k] = "suppressed" => last_alert'[k] = last_alert[k]
          /\ obs'.gate[k] = "granted" => last_alert'[k] = Some(obs'.at[k]) ]_vars

\* C13 witness: one record triggers both kinds; its failover alert is
\* suppressed by an earlier failover alert and its error-rate alert, the
\* first of its kind, is granted.
C13_Witness ==
    /\ obs.gate["failover"] = "suppressed"
    /\ obs.gate["error_rate"] = "granted"
    /\ obs.prev["error_rate"] = None
    /\ obs.at["error_rate"] - obs.prev["failover"][1] < ALERT_COOLDOWN

\* C14: in maintenance mode no request is ever made to the webhook, while a
\* record is counted, appended to the window and compared with the tracked
\* pool as usual, the error-rate check is made as usual, and a granted alert
\* sets its timestamp as usual.
C14_MaintenanceSilent ==
    /\ [](MAINTENANCE_MODE =>
            \A k \in Kinds : /\ obs.slack[k] \in {"none", "maintenance"}
                             /\ delivery[k] \in {"none", "maintenance"})
    /\ [][ (MAINTENANCE_MODE /\ obs'.record # Dropped) =>
            /\ request_count' = request_count + 1
            /\ history' = Append(history, 500 <= obs'.record.status[1]
                                          /\ obs'.record.status[1] <= 599)
            /\ recent' = SubSeq(history', Len(history') - Min(Len(history'), WINDOW_SIZE) + 1,
                                Len(history'))
            /\ (obs'.record.pool # None /\ obs'.record.pool[1] # last_pool) =>
                  /\ last_pool' = obs'.record.pool[1]
                  /\ obs'.gate["failover"] # "none"
            /\ (Len(recent') >= Max(10, WINDOW_SIZE \div 4)
                 /\ \A i \in 1..Len(recent') : recent'[i]) =>
                  obs'.gate["error_rate"] # "none"
            /\ \A k \in Kinds :
                  /\ obs'.gate[k] # "none" =>
                        (obs'.gate[k] = "granted" <=>
                            (last_alert[k] = None
                             \/ obs'.at[k] - last_alert[k][1] >= ALERT_COOLDOWN))
                  /\ obs'.gate[k] = "granted" =>
                        /\ last_alert'[k] = Some(obs'.at[k])
                        /\ obs'.slack[k] = "maintenance" ]_vars

\* C14 witness: in maintenance mode alerts of both kinds have been granted
\* and not sent, and an error-rate alert is now suppressed by the cooldown.
C14_Witness ==
    /\ MAINTENANCE_MODE
    /\ \A k \in Kinds : delivery[k] = "maintenance"
    /\ obs.gate["error_rate"] = "suppressed"

\* the number of 5xx flags among the last n of h
trailing_errors(h, n) ==
    Cardinality({i \in (Len(h) - n + 1)..Len(h) : h[i]})

\* C15: a record is flagged as an error exactly when 500 <= status <= 599,
\* and at every evaluation the rate compared with the threshold is
\* 100 * errors / n, n being the smaller of the number of records parsed so
\* far and the capacity and errors the number of 5xx among the last n of
\* them: an error-rate alert is attempted exactly when n has reached the
\* minimum and that number is at least the threshold.
C15_TrailingWindowRate ==
    Processed =>
        /\ history[Len(history)] =
              (500 <= obs.record.status[1] /\ obs.record.status[1] <= 599)
        /\ obs.gate["error_rate"] # "none" <=>
              /\ Min(Len(history), WINDOW_SIZE) >= Max(10, WINDOW_SIZE \div 4)
              /\ exact_rate_ge(trailing_errors(history, Min(Len(history), WINDOW_SIZE)),
                               Min(Len(history), WINDOW_SIZE), ERROR_RATE_THRESHOLD)

\* the sequence a ends the sequence b
IsSuffix(a, b) ==
    Len(a) <= Len(b) /\ SubSeq(b, Len(b) - Len(a) + 1, Len(b)) = a

\* C16: once the file has been truncated or replaced and the reader has
\* caught up with the new file, the lines of the new file are the latest
\* lines yielded, in order and intact.
C16_RotationTolerant ==
    (truncations > 0 /\ tpc = "poll" /\ pending = <<>> /\ position = Len(path))
    => IsSuffix(CompleteLines(path), yielded)

\* C17: the tracked pool is never empty or "-"; a record that reports a pool
\* label (the label of its line, trimmed) leaves the tracked pool equal to
\* that label whether its failover alert is granted or suppressed, and a
\* line that is dropped or reports no label leaves the tracked pool as it was.
C17_TrackedPoolFollows ==
    /\ [](last_pool # <<>> /\ last_pool # <<"-">>)
    /\ [][
          /\ (obs'.record # Dropped /\ obs'.record.pool # None) =>
                /\ last_pool' = obs'.record.pool[1]
                /\ obs'.record.pool[1] = strip(obs'.line.pool.text)
          /\ (obs'.record = Dropped \/ obs'.record.pool = None) =>
                last_pool' = last_pool
       ]_vars

\* C17 witness: a pool change whose failover alert the cooldown suppressed
\* has changed the tracked pool.
C17_Witness ==
    /\ obs.gate["failover"] = "suppressed"
    /\ obs.event # None
    /\ last_pool = obs.event[1].new
    /\ last_pool # obs.event[1].old

\* C18: an exception raised in the loop body never ends the loop: the loop
\* is back at its top, and the line after it is dropped or counted and
\* appended to the window as any other.
C18_FailureIsolation ==
    /\ [](mpc # "exited" /\ (obs.raised # "none" => mpc = "pull"))
    /\ [][ obs.raised # "none" =>
            \/ /\ obs'.record = Dropped
               /\ UNCHANGED <<recent, last_pool, last_alert, request_count>>
            \/ /\ obs'.record # Dropped
               /\ request_count' = request_count + 1
               /\ history' = Append(history, 500 <= obs'.record.status[1]
                                             /\ obs'.record.status[1] <= 599)
               /\ Len(recent') = Min(Len(history'), WINDOW_SIZE) ]_vars

\* C18 witness: after an exception in the loop body a later record has been
\* processed to the end, error-rate check included.
C18_Witness ==
    /\ faults > 0
    /\ Processed
    /\ obs.raised = "none"
    /\ obs.gate["error_rate"] # "none"

\* C19: a poll that finds the file missing or fails with an I/O error yields
\* nothing, leaves the position where it was and is followed by another
\* poll; the sequence never ends; what has been yielded is always the lines
\* of the file up to the position; and once a poll has failed, the lines
\* the file holds beyond the position are yielded in the end.
C19_TransientErrors ==
    /\ [](tpc # "done")
    /\ [](yielded \o pending = CompleteLines(SubSeq(path, 1, position)))
    /\ [][ errors' # errors =>
            /\ UNCHANGED <<path, position, pending, yielded>>
            /\ tpc' = "poll" ]_vars
    /\ ((errors # <<>> /\ position < Len(path))
          ~> (position = Len(path) /\ pending = <<>>
              /\ yielded = CompleteLines(path)))

\* C19 witness: a poll failed when the reader had already read part of the
\* file, and the reader has since read further and yielded every line.
C19_Witness ==
    /\ \E i \in 1..Len(errors) : 0 < errors[i] /\ errors[i] < position
    /\ position = Len(path)
    /\ pending = <<>>
    /\ yielded = CompleteLines(path)
    /\ Len(yielded) >= 2

\* C20: with a capacity below 10 the window never holds the least sample
\* count, no error-rate alert is ever attempted and none has ever been
\* granted or sent, whatever the records.
C20_SmallWindowSilent ==
    WINDOW_SIZE < 10 =>
        /\ Len(recent) < 10
        /\ obs.gate["error_rate"] = "none"
        /\ last_alert["error_rate"] = None
        /\ delivery["error_rate"] = "none"

\* C20 witness: a capacity of 9 and more than 9 records, every one a 5xx.
C20_Witness ==
    /\ WINDOW_SIZE = 9
    /\ Len(history) > 9
    /\ \A i \in 1..Len(history) : history[i]
    /\ Len(recent) = 9
    /\ Processed

=============================================================================
